---- MODULE Spec2Model ----
(***************************************************************************)
(* A model of pysdf's parse.py: the Model / Link / Joint document graph,   *)
(* the scoped name resolution (get_link, get_joint), the root discovery    *)
(* (find_root_link, get_parent), the tree builder (build_tree), the pose   *)
(* propagation (calculate_absolute_pose) and the URDF emission             *)
(* (add_urdf_elements).                                                     *)
(*                                                                         *)
(* Objects are numbered: models, links and joints are functions from an    *)
(* index to a record of the object's fields; a reference to an object is   *)
(* its index and Python's None is 0.  A model's links, joints and          *)
(* submodels are kept in declaration order, which is index order.  Names   *)
(* are strings and '::' joining is string concatenation.  A homogeneous    *)
(* transform is modelled as a permutation of 1..3: composition is          *)
(* associative and not commutative, every transform has an inverse, and    *)
(* the identity matrix is the identity permutation.  Joint type and axis   *)
(* are not modelled (no property below reads them).                        *)
(***************************************************************************)
EXTENDS Integers, Sequences, FiniteSets, TLC

VARIABLES models, links, joints, root_link, pc, walk, error, urdf, query

vars == <<models, links, joints, root_link, pc, walk, error, urdf, query>>

None == 0

(***************************************************************************)
(* Transforms (tf.transformations).                                        *)
(***************************************************************************)
identity_matrix == <<1, 2, 3>>

\* concatenate_matrices(a, b): the matrix product a.b, apply b, then a.
concatenate_matrices(a, b) == [i \in 1..3 |-> a[b[i]]]

inverse_matrix(a) == [i \in 1..3 |-> CHOOSE k \in 1..3 : a[k] = i]

\* A rotation (3-cycle) and a reflection (transposition): they do not commute.
PoseR == <<2, 3, 1>>
PoseS == <<2, 1, 3>>

(***************************************************************************)
(* Helpers over sequences of indices.                                      *)
(***************************************************************************)
\* The indices of table t, in order.
Indices(t) == [i \in 1..Len(t) |-> i]

SeqRange(s) == {s[i] : i \in 1..Len(s)}

ModelIds == DOMAIN models
LinkIds == DOMAIN links
JointIds == DOMAIN joints

\* self.links, self.joints, self.submodels of model m, in declaration order.
LinksOf(m) ==
  SelectSeq(Indices(links), LAMBDA l : links[l].parent_model = m)
JointsOf(m) ==
  SelectSeq(Indices(joints), LAMBDA j : joints[j].parent_model = m)
SubmodelsOf(m) ==
  SelectSeq(Indices(models), LAMBDA s : models[s].parent_model = m)

\* The document's top-level model: the one constructed with no parent_model.
Top == 1

\* full_prefix = prefix + '::' if prefix else ''
FullPrefix(prefix) == IF prefix # "" THEN prefix \o "::" ELSE ""

(***************************************************************************)
(* Model.get_link                                                          *)
(***************************************************************************)
RECURSIVE get_link(_, _, _)
RECURSIVE get_link_submodels(_, _, _)

\* A prefix that keeps the submodel's name alone.
ExtendPrefix_NameOnly(prefix, name) == name

\* prefix + '::' + submodel.name if prefix else submodel.name
ExtendPrefix(prefix, name) ==
  IF prefix # "" THEN prefix \o "::" \o name ELSE name

get_link(m, requested_linkname, prefix) ==
  LET own == SelectSeq(LinksOf(m),
               LAMBDA l : FullPrefix(prefix) \o links[l].name = requested_linkname)
  IN IF own # <<>> THEN Head(own)
     ELSE get_link_submodels(SubmodelsOf(m), requested_linkname, prefix)

get_link_submodels(subs, requested_linkname, prefix) ==
  IF subs = <<>> THEN None
  ELSE LET res == get_link(Head(subs), requested_linkname,
                           ExtendPrefix(prefix, models[Head(subs)].name))
       IN IF res # None THEN res
          ELSE get_link_submodels(Tail(subs), requested_linkname, prefix)

(***************************************************************************)
(* Model.get_joint                                                         *)
(***************************************************************************)
RECURSIVE get_joint(_, _, _)
RECURSIVE get_joint_submodels(_, _)

\* The prefix get_joint hands to a submodel: submodel.name
JointPrefix(prefix, name) == name

get_joint(m, requested_jointname, prefix) ==
  LET own == SelectSeq(JointsOf(m),
               LAMBDA j : FullPrefix(prefix) \o joints[j].name = requested_jointname)
  IN IF own # <<>> THEN Head(own)
     ELSE get_joint_submodels(SubmodelsOf(m), requested_jointname)

get_joint_submodels(subs, requested_jointname) ==
  IF subs = <<>> THEN None
  ELSE LET res == get_joint(Head(subs), requested_jointname,
                            JointPrefix("", models[Head(subs)].name))
       IN IF res # None THEN res
          ELSE get_joint_submodels(Tail(subs), requested_jointname)

(***************************************************************************)
(* Model.get_parent                                                        *)
(***************************************************************************)
RECURSIVE get_parent(_, _, _, _)
RECURSIVE get_parent_submodels(_, _, _, _, _)

\* The name find_root_link and get_parent look the current link up by.
WalkName(l) == links[l].name

get_parent(m, requested_linkname, prefix, visited) ==
  IF models[m].name \in SeqRange(visited) THEN None
  ELSE
    LET full_prefix == FullPrefix(prefix)
        hit == SelectSeq(JointsOf(m),
                 LAMBDA j : joints[j].child = full_prefix \o requested_linkname)
        below == get_parent_submodels(SubmodelsOf(m), m, requested_linkname,
                                      full_prefix, visited)
    IN IF hit # <<>> THEN get_link(m, joints[Head(hit)].parent, "")
       ELSE IF below # None THEN below
       ELSE IF models[m].parent_model # None
            THEN get_parent(models[m].parent_model, requested_linkname,
                            models[m].name, Append(visited, models[m].name))
       ELSE None

get_parent_submodels(subs, m, requested_linkname, full_prefix, visited) ==
  IF subs = <<>> THEN None
  ELSE LET res == get_parent(Head(subs), requested_linkname,
                             full_prefix \o models[Head(subs)].name,
                             Append(visited, models[m].name))
       IN IF res # None THEN res
          ELSE get_parent_submodels(Tail(subs), m, requested_linkname,
                                    full_prefix, visited)

(***************************************************************************)
(* Model.build_tree                                                        *)
(***************************************************************************)
\* The joints build_tree visits, in order: the model's own, then each
\* submodel's (submodel.build_tree()).
RECURSIVE BuildOrder(_)
RECURSIVE BuildOrderSubmodels(_)
BuildOrder(m) == JointsOf(m) \o BuildOrderSubmodels(SubmodelsOf(m))
BuildOrderSubmodels(subs) ==
  IF subs = <<>> THEN <<>>
  ELSE BuildOrder(Head(subs)) \o BuildOrderSubmodels(Tail(subs))

\* The link a joint's parent / child name resolves to: self.get_link(name),
\* from the model that owns the joint.
ResolveEndpoint(j, name) == get_link(joints[j].parent_model, name, "")

\* One iteration of build_tree's loop on state st = [links, joints, error].
\* Dereferencing an unresolved (None) endpoint raises AttributeError and
\* leaves what was assigned before it.
build_tree_joint(j, st) ==
  LET p == ResolveEndpoint(j, joints[j].parent)
      c == ResolveEndpoint(j, joints[j].child)
      js == [st.joints EXCEPT ![j].tree_parent_link = p,
                              ![j].tree_child_link = c]
  IN IF p = None
     THEN [links |-> st.links, joints |-> js, error |-> "AttributeError"]
     ELSE LET ls == [st.links EXCEPT
                       ![p].tree_child_joints = Append(@, j)]
          IN IF c = None
             THEN [links |-> ls, joints |-> js, error |-> "AttributeError"]
             ELSE [links |-> [ls EXCEPT ![c].tree_parent_joint = j],
                   joints |-> js, error |-> ""]

RECURSIVE build_tree_joints(_, _)
build_tree_joints(js, st) ==
  IF js = <<>> \/ st.error # "" THEN st
  ELSE build_tree_joints(Tail(js), build_tree_joint(Head(js), st))

build_tree(m) ==
  build_tree_joints(BuildOrder(m),
                    [links |-> links, joints |-> joints, error |-> ""])

(***************************************************************************)
(* Model.calculate_absolute_pose                                           *)
(***************************************************************************)
\* The two factors composed the other way round.
WorldMVModel_Swapped(worldMVparent, pose) ==
  concatenate_matrices(pose, worldMVparent)

\* worldMVmodel = concatenate_matrices(worldMVparent, self.pose)
WorldMVModel(worldMVparent, pose) == concatenate_matrices(worldMVparent, pose)

\* link.pose_world = concatenate_matrices(worldMVmodel, link.pose)
LinkPoseWorld(worldMVmodel, pose) == concatenate_matrices(worldMVmodel, pose)

\* joint.pose_world =
\*   concatenate_matrices(worldMVmodel, joint.tree_child_link.pose, joint.pose)
JointPoseWorld(worldMVmodel, child_pose, pose) ==
  concatenate_matrices(concatenate_matrices(worldMVmodel, child_pose), pose)

RECURSIVE calculate_absolute_pose(_, _, _)
RECURSIVE calculate_absolute_pose_submodels(_, _, _)

\* On state st = [models, links, joints, error]; a joint whose tree_child_link
\* is None raises AttributeError.
calculate_absolute_pose(m, worldMVparent, st) ==
  LET worldMVmodel == WorldMVModel(worldMVparent, models[m].pose)
      ms == [st.models EXCEPT ![m].pose_world = worldMVmodel]
      ls == [l \in LinkIds |->
               IF links[l].parent_model = m
               THEN [st.links[l] EXCEPT
                       !.pose_world = LinkPoseWorld(worldMVmodel, links[l].pose)]
               ELSE st.links[l]]
      bad == \E j \in JointIds : /\ joints[j].parent_model = m
                                 /\ joints[j].tree_child_link = None
      js == [j \in JointIds |->
               IF joints[j].parent_model = m /\ joints[j].tree_child_link # None
               THEN [st.joints[j] EXCEPT
                       !.pose_world =
                          JointPoseWorld(worldMVmodel,
                                         links[joints[j].tree_child_link].pose,
                                         joints[j].pose)]
               ELSE st.joints[j]]
  IN IF st.error # "" THEN st
     ELSE IF bad
     THEN [models |-> ms, links |-> ls, joints |-> st.joints,
           error |-> "AttributeError"]
     ELSE calculate_absolute_pose_submodels(
            SubmodelsOf(m), worldMVmodel,
            [models |-> ms, links |-> ls, joints |-> js, error |-> ""])

calculate_absolute_pose_submodels(subs, worldMVmodel, st) ==
  IF subs = <<>> \/ st.error # "" THEN st
  ELSE calculate_absolute_pose_submodels(
         Tail(subs), worldMVmodel,
         calculate_absolute_pose(Head(subs), worldMVmodel, st))

(***************************************************************************)
(* Link.add_urdf_elements, Joint.add_urdf_elements, Model.add_urdf_elements *)
(***************************************************************************)
\* The include test made on the joint's parent link instead of on the link.
LinkOrigin_ByParentLink(l) ==
  LET tpj == links[l].tree_parent_joint
  IN IF tpj # None
     THEN IF links[joints[tpj].tree_parent_link].parent_model
               = joints[tpj].parent_model
          THEN concatenate_matrices(inverse_matrix(joints[tpj].pose_world),
                                    links[l].pose_world)
          ELSE identity_matrix
     ELSE links[l].pose_world

\* The joint's world pose composed without inverting it.
LinkOrigin_NoInverse(l) ==
  LET tpj == links[l].tree_parent_joint
  IN IF tpj # None
     THEN IF joints[tpj].parent_model = links[l].parent_model
          THEN concatenate_matrices(joints[tpj].pose_world, links[l].pose_world)
          ELSE identity_matrix
     ELSE links[l].pose_world

\* The transform Link.add_urdf_elements hands to pose2origin.
LinkOrigin(l) ==
  LET tpj == links[l].tree_parent_joint
  IN IF tpj # None
     THEN IF joints[tpj].parent_model = links[l].parent_model
          THEN concatenate_matrices(inverse_matrix(joints[tpj].pose_world),
                                    links[l].pose_world)
          ELSE identity_matrix
     ELSE links[l].pose_world

\* The transform Joint.add_urdf_elements hands to pose2origin.
JointOrigin(j) ==
  LET tpl == joints[j].tree_parent_link
      tcl == joints[j].tree_child_link
  IN IF links[tpl].parent_model = joints[j].parent_model
     THEN concatenate_matrices(inverse_matrix(links[tpl].pose_world),
                               joints[j].pose_world)
     ELSE concatenate_matrices(inverse_matrix(links[tpl].pose_world),
                               links[tcl].pose_world)

\* Whether Joint.add_urdf_elements dereferences None for joint j.
JointEmitFails(j) ==
  \/ joints[j].tree_parent_link = None
  \/ /\ links[joints[j].tree_parent_link].parent_model # joints[j].parent_model
     /\ joints[j].tree_child_link = None

LinkElement(l, prefix) ==
  [tag |-> "link", ref |-> l, name |-> FullPrefix(prefix) \o links[l].name,
   parent |-> "", child |-> "", origin |-> LinkOrigin(l)]

JointElement(j, prefix) ==
  [tag |-> "joint", ref |-> j, name |-> FullPrefix(prefix) \o joints[j].name,
   parent |-> FullPrefix(prefix) \o joints[j].parent,
   child |-> FullPrefix(prefix) \o joints[j].child,
   origin |-> JointOrigin(j)]

\* The enclosing models' names left out of the prefix handed down.
UrdfPrefix_NameOnly(prefix, name) == name

\* full_prefix = prefix + '::' + self.name if prefix else self.name
UrdfPrefix(prefix, name) ==
  IF prefix # "" THEN prefix \o "::" \o name ELSE name

RECURSIVE add_urdf_elements(_, _)
RECURSIVE add_urdf_elements_submodels(_, _)

\* The elements Model.add_urdf_elements appends to the output node: the
\* model's joints, its links, then each submodel's elements.
add_urdf_elements(m, prefix) ==
  LET full_prefix == UrdfPrefix(prefix, models[m].name)
      js == JointsOf(m)
      ls == LinksOf(m)
  IN [i \in 1..Len(js) |-> JointElement(js[i], full_prefix)]
     \o [i \in 1..Len(ls) |-> LinkElement(ls[i], full_prefix)]
     \o add_urdf_elements_submodels(SubmodelsOf(m), full_prefix)

add_urdf_elements_submodels(subs, full_prefix) ==
  IF subs = <<>> THEN <<>>
  ELSE add_urdf_elements(Head(subs), full_prefix)
       \o add_urdf_elements_submodels(Tail(subs), full_prefix)

(***************************************************************************)
(* Documents: what from_tree / from_file build before the tree passes run. *)
(***************************************************************************)
TopName == "A"

\* Whether model m is `from` or nested (at any depth) in it, in table ms.
RECURSIVE Below(_, _, _)
Below(ms, from, m) ==
  \/ m = from
  \/ /\ ms[m].parent_model # None
     /\ Below(ms, from, ms[m].parent_model)

Join(a, b) == IF a = "" THEN b ELSE a \o "::" \o b

\* The '::'-joined names of the submodels leading from `from` (excluded)
\* down to m (included); "" when m = from.
RECURSIVE PathName(_, _, _)
PathName(ms, from, m) ==
  IF m = from THEN ""
  ELSE Join(PathName(ms, from, ms[m].parent_model), ms[m].name)

\* The names by which a joint owned by model o can refer to a link of the
\* document.
RefNames(ms, ls, o) ==
  {Join(PathName(ms, o, ls[l].parent_model), ls[l].name) :
     l \in {k \in DOMAIN ls : Below(ms, o, ls[k].parent_model)}}

\* A name that no link has.
NoLink == "nolink"

NonDecreasing(f) ==
  \A i, k \in DOMAIN f : i < k => f[i].parent_model <= f[k].parent_model

ModelTables(n, subNames, poses) ==
  {ms \in [1..n -> [name : {TopName} \cup subNames, parent_model : 0..(n - 1),
                    pose : poses, pose_world : {identity_matrix}]] :
     /\ ms[1].parent_model = None
     /\ ms[1].name = TopName
     /\ \A k \in 2..n : /\ ms[k].parent_model \in 1..(k - 1)
                        /\ ms[k].name \in subNames}

LinkTables(nm, n, names, poses) ==
  {ls \in [1..n -> [name : names, parent_model : 1..nm, pose : poses,
                    pose_world : {identity_matrix},
                    tree_parent_joint : {None},
                    tree_child_joints : {<<>>}]] : NonDecreasing(ls)}

JointChoices(ms, ls, names, dangling, poses) ==
  UNION {[name : names, parent_model : {o},
          parent : RefNames(ms, ls, o) \cup dangling,
          child : RefNames(ms, ls, o) \cup dangling,
          pose : poses, pose_world : {identity_matrix},
          tree_parent_link : {None}, tree_child_link : {None}] :
         o \in DOMAIN ms}

JointTables(ms, ls, n, names, dangling, poses) ==
  {js \in [1..n -> JointChoices(ms, ls, names, dangling, poses)] :
     NonDecreasing(js)}

NoQuery == [op |-> "", model |-> None, name |-> "", result |-> None]

Start(ms, ls, js) ==
  /\ models = ms
  /\ links = ls
  /\ joints = js
  /\ root_link = None
  /\ pc = "find_root_link"
  /\ walk = <<>>
  /\ error = ""
  /\ urdf = <<>>
  /\ query = NoQuery

\* Each model but the first is nested in the one before it.
Chain(ms) == \A k \in DOMAIN ms : ms[k].parent_model = k - 1

DistinctNames(t) == \A i, k \in DOMAIN t : i # k => t[i].name # t[k].name

\* A document of at most NM models, NL links and NJ joints is loaded.  The
\* family f gives the names and poses to draw from, the names besides link
\* names that a joint may refer to (dangling), whether the models nest as a
\* chain only, and whether the links bear distinct names.
Load(NM, NL, NJ, f) ==
  \E nm \in 1..NM, nl \in 0..NL, nj \in 0..NJ :
    \E ms \in ModelTables(nm, f.subNames, f.poses) :
      /\ f.chain => Chain(ms)
      /\ \E ls \in LinkTables(nm, nl, f.linkNames, f.poses) :
           /\ f.distinct => DistinctNames(ls)
           /\ \E js \in JointTables(ms, ls, nj, f.jointNames, f.dangling,
                                    f.poses) :
                Start(ms, ls, js)

\* Tree building: one level of nesting, names shared across scopes, joints
\* that may dangle; every pose is the default.
MaxModels == 2
MaxLinks == 3
MaxJoints == 2

Init ==
  Load(MaxModels, MaxLinks, MaxJoints,
       [subNames |-> {"A", "B"}, linkNames |-> {"x", "y"},
        jointNames |-> {"j"}, dangling |-> {NoLink},
        poses |-> {identity_matrix}, chain |-> FALSE, distinct |-> FALSE])

\* Name resolution: two levels of nesting.
ScopeModels == 3
ScopeLinks == 2
ScopeJoints == 1

InitScope ==
  Load(ScopeModels, ScopeLinks, ScopeJoints,
       [subNames |-> {"B", "C"}, linkNames |-> {"w"},
        jointNames |-> {"w"}, dangling |-> {},
        poses |-> {identity_matrix}, chain |-> FALSE, distinct |-> FALSE])

\* Poses: a chain of nested models, and in it a joint and the two links it
\* may join, each with a pose of its own.
PoseModels == 2

InitPose ==
  Load(PoseModels, 2, 1,
       [subNames |-> {"B"}, linkNames |-> {"x", "y"},
        jointNames |-> {"j"}, dangling |-> {},
        poses |-> {identity_matrix, PoseR, PoseS},
        chain |-> TRUE, distinct |-> TRUE])

(***************************************************************************)
(* Model.__init__ of the top-level model, step by step.                    *)
(***************************************************************************)
\* find_root_link: curr_link = self.links[0]
FindRootLinkEnter ==
  /\ pc = "find_root_link"
  /\ walk = <<>>
  /\ IF LinksOf(Top) = <<>>
     THEN /\ pc' = "crashed"
          /\ error' = "IndexError"
          /\ walk' = walk
     ELSE /\ walk' = <<Head(LinksOf(Top))>>
          /\ UNCHANGED <<pc, error>>
  /\ UNCHANGED <<models, links, joints, root_link, urdf, query>>

\* One iteration of find_root_link's loop.  The loop reads nothing but the
\* current link's name and the document, so an iteration that comes back to
\* a link of the walk repeats forever: pc = "diverged".
FindRootLinkStep ==
  /\ pc = "find_root_link"
  /\ walk # <<>>
  /\ LET curr_link == walk[Len(walk)]
         parent_link == get_parent(Top, WalkName(curr_link), "", <<>>)
     IN IF parent_link = None
        THEN /\ root_link' = curr_link
             /\ pc' = "build_tree"
             /\ walk' = walk
        ELSE /\ walk' = Append(walk, parent_link)
             /\ pc' = IF parent_link \in SeqRange(walk) THEN "diverged" ELSE pc
             /\ root_link' = root_link
  /\ UNCHANGED <<models, links, joints, error, urdf, query>>

BuildTree ==
  /\ pc = "build_tree"
  /\ LET st == build_tree(Top)
     IN /\ links' = st.links
        /\ joints' = st.joints
        /\ error' = st.error
        /\ pc' = IF st.error # "" THEN "crashed" ELSE "calculate_absolute_pose"
  /\ UNCHANGED <<models, root_link, walk, urdf, query>>

CalculateAbsolutePose ==
  /\ pc = "calculate_absolute_pose"
  /\ LET st == calculate_absolute_pose(Top, identity_matrix,
                 [models |-> models, links |-> links, joints |-> joints,
                  error |-> ""])
     IN /\ models' = st.models
        /\ links' = st.links
        /\ joints' = st.joints
        /\ error' = st.error
        /\ pc' = IF st.error # "" THEN "crashed" ELSE "constructed"
  /\ UNCHANGED <<root_link, walk, urdf, query>>

(***************************************************************************)
(* Calls on the constructed document.  get_link, get_joint and             *)
(* to_urdf_string read the document and change nothing of it, so a call    *)
(* after another one reaches nothing new: one call per run is modelled.    *)
(***************************************************************************)
NoCallYet == pc = "constructed" /\ query = NoQuery /\ urdf = <<>>

\* The names a caller asks for: an entity name of the document under every
\* chain of submodel names that is no longer than the document is deep.
EntityNames ==
  {links[l].name : l \in LinkIds} \cup {joints[j].name : j \in JointIds}
SubmodelNames == {models[m].name : m \in ModelIds \ {Top}}
RECURSIVE ChainsUpTo(_)
ChainsUpTo(n) ==
  IF n = 0 THEN {""}
  ELSE ChainsUpTo(n - 1)
       \cup {Join(c, a) : c \in ChainsUpTo(n - 1), a \in SubmodelNames}
QueryNames ==
  {Join(c, e) : c \in ChainsUpTo(Cardinality(ModelIds) - 1), e \in EntityNames}

GetLink(m, name) ==
  /\ NoCallYet
  /\ query' = [op |-> "get_link", model |-> m, name |-> name,
               result |-> get_link(m, name, "")]
  /\ UNCHANGED <<models, links, joints, root_link, pc, walk, error, urdf>>

GetJoint(m, name) ==
  /\ NoCallYet
  /\ query' = [op |-> "get_joint", model |-> m, name |-> name,
               result |-> get_joint(m, name, "")]
  /\ UNCHANGED <<models, links, joints, root_link, pc, walk, error, urdf>>

\* to_urdf_string: self.add_urdf_elements(urdfnode)
ToUrdf ==
  /\ NoCallYet
  /\ IF \E j \in JointIds : JointEmitFails(j)
     THEN /\ error' = "AttributeError"
          /\ urdf' = urdf
     ELSE /\ urdf' = add_urdf_elements(Top, "")
          /\ error' = error
  /\ UNCHANGED <<models, links, joints, root_link, pc, walk, query>>

Next ==
  \/ FindRootLinkEnter
  \/ FindRootLinkStep
  \/ BuildTree
  \/ CalculateAbsolutePose
  \/ \E m \in ModelIds, name \in QueryNames : GetLink(m, name)
  \/ \E m \in ModelIds, name \in QueryNames : GetJoint(m, name)
  \/ ToUrdf

Spec == Init /\ [][Next]_vars

SpecScope == InitScope /\ [][Next]_vars

SpecPose == InitPose /\ [][Next]_vars

(***************************************************************************)
(* What the document says, read off the authored fields alone.             *)
(***************************************************************************)
\* The name by which a caller at model `from` refers to entity `name` of
\* model m: the '::'-joined submodel names from `from` down to m, then name.
ScopedName(from, m, name) == Join(PathName(models, from, m), name)

\* The links joint j's authored name `name` denotes.
Denoted(j, name) ==
  {l \in LinkIds :
     /\ Below(models, joints[j].parent_model, links[l].parent_model)
     /\ ScopedName(joints[j].parent_model, links[l].parent_model,
                   links[l].name) = name}

\* The joints whose authored child is link l.
ParentJoints(l) == {j \in JointIds : l \in Denoted(j, joints[j].child)}

Parentless == {l \in LinkIds : ParentJoints(l) = {}}

\* The links reached from l by following authored joints child-to-parent at
\* most n times.
RECURSIVE Ancestors(_, _)
Ancestors(S, n) ==
  IF n = 0 THEN {}
  ELSE LET up == UNION {Denoted(j, joints[j].parent) :
                          j \in UNION {ParentJoints(l) : l \in S}}
       IN up \cup Ancestors(up, n - 1)

\* No two models share a name, every joint names exactly one parent and one
\* child link, every link is the child of at most one joint, and no link is
\* its own ancestor: the joints form a forest.
WellFormed ==
  /\ \A m, n \in ModelIds : m # n => models[m].name # models[n].name
  /\ \A j \in JointIds : /\ Cardinality(Denoted(j, joints[j].parent)) = 1
                         /\ Cardinality(Denoted(j, joints[j].child)) = 1
  /\ \A l \in LinkIds : Cardinality(ParentJoints(l)) <= 1
  /\ \A l \in LinkIds : l \notin Ancestors({l}, Cardinality(LinkIds))

\* The forest is one tree: exactly one link has no parent joint.
SingleTree == WellFormed /\ Cardinality(Parentless) = 1

TopHasLink == LinksOf(Top) # <<>>

TreeBuilt == pc \in {"calculate_absolute_pose", "constructed"}

\* C1: for a well-formed document, the link find_root_link returned for the
\* top-level model is a link of the document that, after build_tree, has no
\* tree_parent_joint.
C1_RootUniqueness ==
  (WellFormed /\ TreeBuilt) =>
    /\ root_link \in LinkIds
    /\ links[root_link].tree_parent_joint = None

\* C2: for a well-formed document whose joints form one tree, the walk of
\* find_root_link never comes back to a link it has left (it terminates),
\* and the link it ends at is the one link that no joint has as its child.
C2_WalkTerminatesAtRoot ==
  (SingleTree /\ TopHasLink) =>
    /\ \A i, k \in 1..Len(walk) : i # k => walk[i] # walk[k]
    /\ root_link # None => root_link \in Parentless

\* C3: once the top-level model is constructed, the root link is the only
\* link of the whole document whose tree_parent_joint is None (a link holds
\* one tree_parent_joint at most by construction of the field).
C3_OnlyRootIsParentless ==
  (SingleTree /\ pc = "constructed") =>
    \A l \in LinkIds : (links[l].tree_parent_joint = None) <=> (l = root_link)

\* A joint of the document names a parent or child that get_link does not
\* resolve.
Unresolved(j) ==
  \/ ResolveEndpoint(j, joints[j].parent) = None
  \/ ResolveEndpoint(j, joints[j].child) = None

\* C4: when a joint's parent or child name resolves to no link, construction
\* does not fail: build_tree and the passes after it complete.
C4_UnresolvedTolerated ==
  (TopHasLink /\ \E j \in JointIds : Unresolved(j)) => error # "AttributeError"

\* C10: constructing a top-level model with zero links does not fail; the
\* model is rootless and build_tree and calculate_absolute_pose still run.
C10_ZeroLinksTolerated ==
  ~TopHasLink => /\ pc # "crashed"
                 /\ root_link = None

(***************************************************************************)
(* Name resolution.                                                        *)
(***************************************************************************)
\* The links / joints that the name `name`, asked of model m, denotes.
LinksNamed(m, name) ==
  {l \in LinkIds :
     /\ Below(models, m, links[l].parent_model)
     /\ ScopedName(m, links[l].parent_model, links[l].name) = name}

JointsNamed(m, name) ==
  {j \in JointIds :
     /\ Below(models, m, joints[j].parent_model)
     /\ ScopedName(m, joints[j].parent_model, joints[j].name) = name}

\* C6: get_link(model, name, '') returns a link whose '::'-joined chain of
\* submodel names from model down to its owner, followed by its own name, is
\* `name`, and returns nothing exactly when the document has no such link.
C6_ScopedResolution ==
  query.op = "get_link" =>
    IF query.result = None
    THEN LinksNamed(query.model, query.name) = {}
    ELSE query.result \in LinksNamed(query.model, query.name)

\* get_link asked of the top-level model found a link two submodels down.
C6_Witness ==
  /\ query.op = "get_link"
  /\ query.model = Top
  /\ query.result # None
  /\ models[links[query.result].parent_model].parent_model \notin {None, Top}

\* C7: get_joint finds a joint exactly when get_link's algorithm finds an
\* entity of that name in that model: under the '::'-joined chain of all the
\* submodel names from the model asked down to the joint's owner.
C7_JointResolvesLikeLink ==
  query.op = "get_joint" =>
    IF query.result = None
    THEN JointsNamed(query.model, query.name) = {}
    ELSE query.result \in JointsNamed(query.model, query.name)

(***************************************************************************)
(* Poses.                                                                  *)
(***************************************************************************)
\* acc expressed in the world frame: the local poses of model m and of every
\* model around it, outermost first, composed onto acc from the right end.
RECURSIVE InWorld(_, _)
InWorld(m, acc) ==
  IF m = None THEN acc
  ELSE InWorld(models[m].parent_model,
               concatenate_matrices(models[m].pose, acc))

\* C8: after calculate_absolute_pose every link's pose_world is the ordered
\* composition of the local poses of its enclosing models, from the top-level
\* model down to its owner, followed by the link's own local pose.
C8_PoseComposition ==
  pc = "constructed" =>
    \A l \in LinkIds :
      links[l].pose_world = InWorld(links[l].parent_model, links[l].pose)

\* A link of a submodel whose own pose is not the identity, under a model and
\* a submodel whose poses do not commute.
C8_Witness ==
  /\ pc = "constructed"
  /\ \E l \in LinkIds :
       LET s == links[l].parent_model
       IN /\ models[s].parent_model = Top
          /\ links[l].pose # identity_matrix
          /\ concatenate_matrices(models[Top].pose, models[s].pose)
               # concatenate_matrices(models[s].pose, models[Top].pose)

\* The origin emitted for link l.
EmittedOrigin(l) ==
  LET i == CHOOSE k \in 1..Len(urdf) : urdf[k].tag = "link" /\ urdf[k].ref = l
  IN urdf[i].origin

\* The relative transform inverse(joint.pose_world) o link.pose_world.
Relative(j, l) ==
  concatenate_matrices(inverse_matrix(joints[j].pose_world), links[l].pose_world)

\* C5 as stated: for every joint whose parent link belongs to another model
\* instance than the joint, the link the joint parents is emitted with the
\* identity as its origin.
C5_IdentityWhenParentLinkElsewhere ==
  urdf # <<>> =>
    \A j \in JointIds, l \in LinkIds :
      (/\ links[l].tree_parent_joint = j
       /\ links[joints[j].tree_parent_link].parent_model
            # joints[j].parent_model)
      => EmittedOrigin(l) = identity_matrix

\* C5, amended: for every joint whose child link belongs to another model
\* instance than the joint, the link the joint parents is emitted with the
\* identity as its origin.
C5_IdentityWhenChildLinkElsewhere ==
  urdf # <<>> =>
    \A j \in JointIds, l \in LinkIds :
      (/\ links[l].tree_parent_joint = j
       /\ links[l].parent_model # joints[j].parent_model)
      => EmittedOrigin(l) = identity_matrix

\* A link emitted under a joint of another model instance, where the
\* relative transform is not the identity.
C5_Witness ==
  /\ urdf # <<>>
  /\ \E j \in JointIds, l \in LinkIds :
       /\ links[l].tree_parent_joint = j
       /\ links[l].parent_model # joints[j].parent_model
       /\ Relative(j, l) # identity_matrix

\* Link l has the identity as its local pose, and so has every model
\* around it.
RECURSIVE IdentityChain(_)
IdentityChain(m) ==
  \/ m = None
  \/ /\ models[m].pose = identity_matrix
     /\ IdentityChain(models[m].parent_model)

IdentityPosed(l) ==
  links[l].pose = identity_matrix /\ IdentityChain(links[l].parent_model)

\* C9 as stated: every identity-posed link under identity-posed models is
\* emitted with the identity as its origin, with or without a
\* tree_parent_joint, whatever the joint's pose.
C9_IdentityOriginAnyJoint ==
  urdf # <<>> =>
    \A l \in LinkIds : IdentityPosed(l) => EmittedOrigin(l) = identity_matrix

\* C9, amended: such a link is emitted with the identity as its origin when
\* it has no tree_parent_joint or one of another model instance; under a
\* tree_parent_joint of its own model the origin is the inverse of that
\* joint's local pose, the identity only when the joint's pose is.
C9_IdentityOrigin ==
  urdf # <<>> =>
    \A l \in LinkIds :
      IdentityPosed(l) =>
        LET tpj == links[l].tree_parent_joint
        IN IF tpj # None /\ joints[tpj].parent_model = links[l].parent_model
           THEN /\ EmittedOrigin(l) = inverse_matrix(joints[tpj].pose)
                /\ (joints[tpj].pose = identity_matrix
                      => EmittedOrigin(l) = identity_matrix)
           ELSE EmittedOrigin(l) = identity_matrix

\* An identity-posed link emitted under a joint of its own model whose pose
\* is the identity.
C9_Witness ==
  /\ urdf # <<>>
  /\ \E l \in LinkIds :
       /\ IdentityPosed(l)
       /\ links[l].tree_parent_joint # None
       /\ joints[links[l].tree_parent_joint].parent_model = links[l].parent_model
       /\ joints[links[l].tree_parent_joint].pose = identity_matrix
       /\ EmittedOrigin(l) = identity_matrix

(***************************************************************************)
(* Flattened names.                                                        *)
(***************************************************************************)
\* The flat names under which Link.add_urdf_elements emitted link l.
EmittedLinkNames(l) ==
  {urdf[k].name : k \in {i \in DOMAIN urdf : /\ urdf[i].tag = "link"
                                             /\ urdf[i].ref = l}}

\* The joint elements of the output.
EmittedJoints == {i \in DOMAIN urdf : urdf[i].tag = "joint"}

\* C11: in the flattened output every joint element's parent and child link
\* names are exactly the names under which the links build_tree resolved for
\* that joint (tree_parent_link, tree_child_link) are emitted, at every
\* nesting depth, so each emitted joint references emitted links.
C11_ReferentialIntegrity ==
  \A i \in EmittedJoints :
    LET j == urdf[i].ref
    IN /\ joints[j].tree_parent_link # None
       /\ joints[j].tree_child_link # None
       /\ EmittedLinkNames(joints[j].tree_parent_link) = {urdf[i].parent}
       /\ EmittedLinkNames(joints[j].tree_child_link) = {urdf[i].child}

\* The output holds a joint that joins a link of its own model to a link two
\* submodels further down.
C11_Witness ==
  \E i \in EmittedJoints :
    LET j == urdf[i].ref
        tpl == joints[j].tree_parent_link
        tcl == joints[j].tree_child_link
    IN /\ tpl # None
       /\ tcl # None
       /\ links[tpl].parent_model # links[tcl].parent_model
       /\ \E l \in {tpl, tcl} :
            /\ links[l].parent_model # joints[j].parent_model
            /\ models[links[l].parent_model].parent_model
                 # joints[j].parent_model

====
